---- MODULE Spec2Model ----
(***************************************************************************)
(* Cash Cleaner packing optimiser: the two depth-first searches            *)
(* (ideal 30-bundle blocks, loose bundles), the scoring and top-K          *)
(* selection, and the two callers (CLI main, HTTP optimize).               *)
(*                                                                         *)
(* Sequences are 1-based: index i of a Python list is index i+1 here, so   *)
(* the test i == len(denoms) - 1 reads i = Len(denoms).                    *)
(***************************************************************************)
EXTENDS Integers, Sequences, FiniteSets, TLC

\* ------------------------------------------------------------------------
\* Configuration (cash_cleaner_optimizer.py, lines 35-57)
\* ------------------------------------------------------------------------
BUNDLE_SIZE ==
    100

BLOCK_SIZE ==
    30

CURRENCIES ==
    [USD |-> <<100, 50, 20, 10>>,
     EUR |-> <<100, 50, 20>>,
     JPY |-> <<10000, 5000, 1000>>]

_INFTY ==
    1000000000

\* ------------------------------------------------------------------------
\* Python built-ins used by the optimiser
\* ------------------------------------------------------------------------
Min2(a, b) ==
    IF a <= b THEN a ELSE b

Min3(a, b, c) ==
    Min2(Min2(a, b), c)

Range(s) ==
    {s[k] : k \in DOMAIN s}

\* sum(s), over the first n items
RECURSIVE SumTo(_, _)
SumTo(s, n) ==
    IF n = 0 THEN 0 ELSE SumTo(s, n - 1) + s[n]

SumSeq(s) ==
    SumTo(s, Len(s))

\* sum(d * c for d, c in zip(denoms, bundle_counts)); zip stops at the shorter
RECURSIVE DotTo(_, _, _)
DotTo(ds, cs, n) ==
    IF n = 0 THEN 0 ELSE DotTo(ds, cs, n - 1) + ds[n] * cs[n]

ZipDot(ds, cs) ==
    DotTo(ds, cs, Min2(Len(ds), Len(cs)))

\* sum(1 for c in bundle_counts if c)
RECURSIVE NonZeroTo(_, _)
NonZeroTo(cs, n) ==
    IF n = 0 THEN 0
    ELSE NonZeroTo(cs, n - 1) + (IF cs[n] # 0 THEN 1 ELSE 0)

CountNonZero(cs) ==
    NonZeroTo(cs, Len(cs))

\* min(denoms)
RECURSIVE MinTo(_, _)
MinTo(s, n) ==
    IF n = 1 THEN s[1] ELSE Min2(MinTo(s, n - 1), s[n])

MinSeq(s) ==
    MinTo(s, Len(s))

\* [x] * n
RECURSIVE Repeat(_, _)
Repeat(x, n) ==
    IF n = 0 THEN << >> ELSE Append(Repeat(x, n - 1), x)

\* the list after list[i] = x
SetItem(list, i, x) ==
    SubSeq(list, 1, i - 1) \o <<x>> \o SubSeq(list, i + 1, Len(list))

\* sorted(denoms, reverse=True): stable insertion into a descending list
RECURSIVE InsertDesc(_, _)
InsertDesc(x, s) ==
    IF s = << >> THEN <<x>>
    ELSE IF s[1] < x THEN <<x>> \o s
    ELSE <<s[1]>> \o InsertDesc(x, Tail(s))

RECURSIVE SortedDesc(_)
SortedDesc(s) ==
    IF s = << >> THEN << >>
    ELSE InsertDesc(s[Len(s)], SortedDesc(SubSeq(s, 1, Len(s) - 1)))

\* Python integers are unbounded; the sum of four _INFTY sentinels does not
\* fit the model checker's integers.  A total is kept as hi * _INFTY + lo
\* with 0 <= lo < _INFTY, which is exact for summands in 0 .. _INFTY.
BigAdd(t, x) ==
    LET s == t.lo + x
    IN  IF s >= _INFTY THEN [hi |-> t.hi + 1, lo |-> s - _INFTY]
        ELSE [hi |-> t.hi, lo |-> s]

\* sum(stock[d] for d in denoms)
RECURSIVE SumStock(_, _)
SumStock(denoms, stock) ==
    IF denoms = << >> THEN [hi |-> 0, lo |-> 0]
    ELSE BigAdd(SumStock(SubSeq(denoms, 1, Len(denoms) - 1), stock),
                stock[denoms[Len(denoms)]])

\* t // k   (floor((hi*(k*q + r) + lo) / k) = hi*q + floor((hi*r + lo) / k))
BigDiv(t, k) ==
    t.hi * (_INFTY \div k) + ((t.hi * (_INFTY % k) + t.lo) \div k)

\* x > t, for 0 <= x < _INFTY
BigExceeds(x, t) ==
    t.hi = 0 /\ x > t.lo

\* ------------------------------------------------------------------------
\* Ideal-block solver
\* ------------------------------------------------------------------------
\* The searches append to the list out and fill the scratch list cur in
\* place.  Here a call's value is the list of what it appends, in order, and
\* cur is passed down with entry i set (cur.__setitem__(i, b) or cur); an
\* emitted pair holds cur.copy().  DfsLeaf and DfsLoop below run the same
\* code one statement at a time on the shared scratch list.

\* value_left // d if d else 0   (lines 81 and 149)
NeededBundles(value_left, d) ==
    IF d # 0 THEN value_left \div d ELSE 0

\* the test of lines 82-84 without its stock clause
BlocksLeafOk_NoStock(d, needed_bundles, bundles_left, value_left, stock) ==
    /\ value_left = d * needed_bundles
    /\ needed_bundles = bundles_left

\* the test of lines 82-84 without its bundle-count clause
BlocksLeafOk_NoCount(d, needed_bundles, bundles_left, value_left, stock) ==
    /\ value_left = d * needed_bundles
    /\ needed_bundles <= stock[d]

\* the test of lines 82-84
BlocksLeafOk(d, needed_bundles, bundles_left, value_left, stock) ==
    /\ value_left = d * needed_bundles
    /\ needed_bundles = bundles_left
    /\ needed_bundles <= stock[d]

\* max_for_d of line 90
BlocksMaxForD(d, bundles_left, value_left, stock) ==
    Min3(bundles_left, stock[d], value_left \div d)

RECURSIVE _search_blocks(_, _, _, _, _, _, _)
_search_blocks(denoms, blocks, i, bundles_left, value_left, cur, stock) ==
    LET d == denoms[i]
    IN  IF i = Len(denoms)
        THEN LET needed_bundles == NeededBundles(value_left, d)
             IN  IF BlocksLeafOk(d, needed_bundles, bundles_left, value_left,
                                 stock)
                 THEN << <<blocks, SetItem(cur, i, needed_bundles)>> >>
                 ELSE << >>
        ELSE LET max_for_d == BlocksMaxForD(d, bundles_left, value_left, stock)
                 RECURSIVE loop(_)
                 loop(b) ==
                     IF b > max_for_d THEN << >>
                     ELSE _search_blocks(denoms, blocks, i + 1,
                                         bundles_left - b,
                                         value_left - d * b,
                                         SetItem(cur, i, b),
                                         stock)
                          \o loop(b + 1)
             IN  loop(0)

\* max_blocks with the largest denomination in place of the smallest
MaxBlocksFor_Largest(amount, denoms, stock) ==
    LET largest_bundle_value == denoms[1] * BUNDLE_SIZE
        theoretical_max_blocks == amount \div (largest_bundle_value * BLOCK_SIZE)
        total_stock_bundles == SumStock(denoms, stock)
    IN  Min2(theoretical_max_blocks, BigDiv(total_stock_bundles, BLOCK_SIZE))

\* max_blocks of lines 112-116
MaxBlocksFor(amount, denoms, stock) ==
    LET smallest_bundle_value == MinSeq(denoms) * BUNDLE_SIZE
        theoretical_max_blocks == amount \div (smallest_bundle_value * BLOCK_SIZE)
        total_stock_bundles == SumStock(denoms, stock)
    IN  Min2(theoretical_max_blocks, BigDiv(total_stock_bundles, BLOCK_SIZE))

_enumerate_ideal_configs(amount, denoms0, stock) ==
    IF amount % BUNDLE_SIZE # 0 THEN << >>
    ELSE
    LET units == amount \div BUNDLE_SIZE
        denoms == SortedDesc(denoms0)
        total_stock_bundles == SumStock(denoms, stock)
        max_blocks == MaxBlocksFor(amount, denoms, stock)
        cur == Repeat(0, Len(denoms))
        RECURSIVE loop(_)
        loop(blocks) ==
            IF blocks > max_blocks THEN << >>
            ELSE LET bundles_total == blocks * BLOCK_SIZE
                 IN  IF BigExceeds(bundles_total, total_stock_bundles) THEN << >>
                     ELSE _search_blocks(denoms, blocks, 1, bundles_total,
                                         units, cur, stock)
                          \o loop(blocks + 1)
    IN  loop(1)

\* ------------------------------------------------------------------------
\* Loose-bundle fallback
\* ------------------------------------------------------------------------
\* the test of line 150 without its exact-division clause
BundlesLeafOk_NoExact(d, needed, value_left, stock) ==
    needed <= stock[d]

\* the test of line 150
BundlesLeafOk(d, needed, value_left, stock) ==
    value_left = d * needed /\ needed <= stock[d]

\* max_for_d of line 156 with the loop of line 157 one iteration short
BundlesMaxForD_Short(d, value_left, stock) ==
    Min2(stock[d], value_left \div d) - 1

\* max_for_d of line 156
BundlesMaxForD(d, value_left, stock) ==
    Min2(stock[d], value_left \div d)

RECURSIVE _search_bundles(_, _, _, _, _)
_search_bundles(denoms, i, value_left, cur, stock) ==
    LET d == denoms[i]
    IN  IF i = Len(denoms)
        THEN LET needed == NeededBundles(value_left, d)
             IN  IF BundlesLeafOk(d, needed, value_left, stock)
                 THEN << SetItem(cur, i, needed) >>
                 ELSE << >>
        ELSE LET max_for_d == BundlesMaxForD(d, value_left, stock)
                 RECURSIVE loop(_)
                 loop(b) ==
                     IF b > max_for_d THEN << >>
                     ELSE _search_bundles(denoms, i + 1,
                                          value_left - d * b,
                                          SetItem(cur, i, b),
                                          stock)
                          \o loop(b + 1)
             IN  loop(0)

_enumerate_loose_configs(amount, denoms0, stock) ==
    IF amount % BUNDLE_SIZE # 0 THEN << >>
    ELSE
    LET units == amount \div BUNDLE_SIZE
        denoms == SortedDesc(denoms0)
        cur == Repeat(0, Len(denoms))
    IN  _search_bundles(denoms, 1, units, cur, stock)

\* ------------------------------------------------------------------------
\* Variant scoring helpers
\* ------------------------------------------------------------------------
\* A score is the tuple (first, kinds, -avg).  avg is a true division; it is
\* kept as the exact fraction num / den, and the division raises
\* ZeroDivisionError when den = 0 (field raises).  Within the model's inputs
\* two different fractions differ by far more than one unit in the last
\* place of a double, so comparing the fractions is comparing the floats.
_score_ideal(blocks, bundle_counts, denoms) ==
    [first  |-> blocks,
     kinds  |-> CountNonZero(bundle_counts),
     num    |-> ZipDot(denoms, bundle_counts),
     den    |-> SumSeq(bundle_counts),
     raises |-> SumSeq(bundle_counts) = 0]

\* _score_loose with the length of the list in place of the bundle total
_score_loose_Length(bundle_counts, denoms) ==
    [first  |-> Len(bundle_counts),
     kinds  |-> CountNonZero(bundle_counts),
     num    |-> ZipDot(denoms, bundle_counts),
     den    |-> SumSeq(bundle_counts),
     raises |-> SumSeq(bundle_counts) = 0]

_score_loose(bundle_counts, denoms) ==
    [first  |-> SumSeq(bundle_counts),
     kinds  |-> CountNonZero(bundle_counts),
     num    |-> ZipDot(denoms, bundle_counts),
     den    |-> SumSeq(bundle_counts),
     raises |-> SumSeq(bundle_counts) = 0]

\* the comparison of two scores with the kinds component left out
ScoreLess_NoKinds(k1, k2) ==
    \/ k1.first < k2.first
    \/ /\ k1.first = k2.first
       /\ k1.num * k2.den > k2.num * k1.den

\* Tuple comparison k1 < k2 of two scores (first, kinds, -num/den), den > 0
ScoreLess(k1, k2) ==
    \/ k1.first < k2.first
    \/ /\ k1.first = k2.first
       /\ \/ k1.kinds < k2.kinds
          \/ /\ k1.kinds = k2.kinds
             /\ k1.num * k2.den > k2.num * k1.den

\* list.sort(key=...): every key is computed first, then the (key, item)
\* pairs are sorted by a stable merge sort.  Two sorted runs a (left) and b
\* (right) are merged around the middle element m of a: the items of b that
\* are strictly smaller than m go before it, the others (ties included)
\* after it, so on a tie the item of the left run stays first.
RECURSIVE CountLess(_, _, _, _)
CountLess(b, key, lo, hi) ==
    \* number of leading items of the sorted run b whose key is < key,
    \* knowing it lies in lo .. hi
    IF lo = hi THEN lo
    ELSE LET mid == (lo + hi + 1) \div 2
         IN  IF ScoreLess(b[mid].key, key)
             THEN CountLess(b, key, mid, hi)
             ELSE CountLess(b, key, lo, mid - 1)

RECURSIVE MergeRuns(_, _)
MergeRuns(a, b) ==
    IF a = << >> THEN b
    ELSE IF b = << >> THEN a
    ELSE LET h == (Len(a) + 1) \div 2
             q == CountLess(b, a[h].key, 0, Len(b))
         IN  MergeRuns(SubSeq(a, 1, h - 1), SubSeq(b, 1, q))
             \o <<a[h]>>
             \o MergeRuns(SubSeq(a, h + 1, Len(a)), SubSeq(b, q + 1, Len(b)))

RECURSIVE ListSort(_)
ListSort(s) ==
    IF Len(s) <= 1 THEN s
    ELSE LET h == Len(s) \div 2
         IN  MergeRuns(ListSort(SubSeq(s, 1, h)),
                       ListSort(SubSeq(s, h + 1, Len(s))))

\* list(islice(raw, max_variants)), max_variants >= 0
Islice(raw, max_variants) ==
    SubSeq(raw, 1, Min2(max_variants, Len(raw)))

\* ------------------------------------------------------------------------
\* Public APIs
\* ------------------------------------------------------------------------
\* bundles_stock is a function from denominations to counts; None and the
\* empty dict are both falsy at line 206 and are the empty function here.
NoStock ==
    [d \in {} |-> 0]

_normalise_stock(denoms, bundles_stock) ==
    LET stock == [d \in Range(denoms) |-> _INFTY]
    IN  IF DOMAIN bundles_stock # {}
        THEN [d \in DOMAIN stock \cup DOMAIN bundles_stock |->
                 IF d \in DOMAIN bundles_stock THEN bundles_stock[d]
                 ELSE stock[d]]
        ELSE stock

\* The value of a call: the list returned, or raised = TRUE when the call
\* ends with an exception (ZeroDivisionError out of the sort key).
Returned(list) ==
    [state |-> "returned", value |-> list]

Raised ==
    [state |-> "raised", value |-> << >>]

find_ideal_block_variants(amount, currency_code, max_variants, bundles_stock) ==
    LET denoms == CURRENCIES[currency_code]
        stock == _normalise_stock(denoms, bundles_stock)
        raw == _enumerate_ideal_configs(amount, denoms, stock)
        keyed == [k \in DOMAIN raw |->
                     [key |-> _score_ideal(raw[k][1], raw[k][2], denoms),
                      item |-> raw[k]]]
    IN  IF \E k \in DOMAIN keyed : keyed[k].key.raises THEN Raised
        ELSE LET sorted == ListSort(keyed)
             IN  Returned(Islice([k \in DOMAIN sorted |-> sorted[k].item],
                                 max_variants))

find_loose_bundle_variants(amount, currency_code, max_variants, bundles_stock) ==
    LET denoms == CURRENCIES[currency_code]
        stock == _normalise_stock(denoms, bundles_stock)
        raw == _enumerate_loose_configs(amount, denoms, stock)
        keyed == [k \in DOMAIN raw |->
                     [key |-> _score_loose(raw[k], denoms),
                      item |-> raw[k]]]
    IN  IF \E k \in DOMAIN keyed : keyed[k].key.raises THEN Raised
        ELSE LET sorted == ListSort(keyed)
             IN  Returned(Islice([k \in DOMAIN sorted |-> sorted[k].item],
                                 max_variants))

\* ------------------------------------------------------------------------
\* Inputs
\* ------------------------------------------------------------------------
MaxHalfBundles ==
    2

MaxBundles ==
    5

MaxBlocks ==
    2

MaxVariants ==
    2

LowStock ==
    2

HighStock ==
    26

MaxDfsStockKeys ==
    1

CurrencyCodes ==
    DOMAIN CURRENCIES

\* Amounts around zero in steps of half a bundle (negative, zero, not
\* divisible by BUNDLE_SIZE), a few bundles of the smallest denomination,
\* and whole blocks of the smallest denomination.
Amounts(code) ==
    LET smallest == MinSeq(CURRENCIES[code])
    IN  {k * (BUNDLE_SIZE \div 2) : k \in -MaxHalfBundles..MaxHalfBundles}
        \cup {k * smallest * BUNDLE_SIZE : k \in 1..MaxBundles}
        \cup {k * smallest * BUNDLE_SIZE * BLOCK_SIZE : k \in 1..MaxBlocks}

StockLevels ==
    {0, LowStock, HighStock}

\* Every stock mapping over a subset of the currency's denominations
StockMaps(code) ==
    UNION {[S -> StockLevels] : S \in SUBSET Range(CURRENCIES[code])}

\* ------------------------------------------------------------------------
\* State
\* ------------------------------------------------------------------------
VARIABLES
    amount,          \* the order value
    currency_code,   \* a key of CURRENCIES
    max_variants,    \* number of variants asked for
    bundles_stock,   \* the stock mapping as the caller received it
    pc,              \* where the caller is
    ideal_variants,  \* value of find_ideal_block_variants, once called
    loose_variants,  \* value of find_loose_bundle_variants, once called
    calls,           \* the searches main or optimize invoked so far, in order
    response,        \* what the caller printed or sent
    blocks,          \* _enumerate_ideal_configs: the loop variable blocks
    stack,           \* the frames of _search_blocks / _search_bundles
    lists,           \* the list objects: lists[1] is cur, the others copies
    out              \* the output list: (blocks, reference to a list object)

vars ==
    <<amount, currency_code, max_variants, bundles_stock, pc,
      ideal_variants, loose_variants, calls, response,
      blocks, stack, lists, out>>

dfs ==
    <<blocks, stack, lists, out>>

\* no search is being stepped through
DfsIdle ==
    /\ blocks = 0
    /\ stack = << >>
    /\ lists = << >>
    /\ out = << >>

request ==
    <<amount, currency_code, max_variants, bundles_stock>>

NotCalled ==
    [state |-> "none", value |-> << >>]

NoResponse ==
    [kind |-> "none", variants |-> << >>]

InitRequest ==
    /\ currency_code \in CurrencyCodes
    /\ amount \in Amounts(currency_code)
    /\ max_variants \in {1, MaxVariants}
    /\ ideal_variants = NotCalled
    /\ loose_variants = NotCalled
    /\ calls = << >>
    /\ response = NoResponse

\* ------------------------------------------------------------------------
\* The two entry points called directly (module docstring, lines 19-24)
\* ------------------------------------------------------------------------
Init ==
    /\ InitRequest
    /\ DfsIdle
    /\ bundles_stock \in StockMaps(currency_code)
    /\ pc = "api"

CallIdeal ==
    /\ pc = "api"
    /\ ideal_variants.state = "none"
    /\ ideal_variants' = find_ideal_block_variants(amount, currency_code,
                                                   max_variants, bundles_stock)
    /\ UNCHANGED <<request, dfs, pc, loose_variants, calls, response>>

CallLoose ==
    /\ pc = "api"
    /\ loose_variants.state = "none"
    /\ loose_variants' = find_loose_bundle_variants(amount, currency_code,
                                                    max_variants, bundles_stock)
    /\ UNCHANGED <<request, dfs, pc, ideal_variants, calls, response>>

Next ==
    \/ CallIdeal
    \/ CallLoose

Spec ==
    Init /\ [][Next]_vars

\* ------------------------------------------------------------------------
\* The callers: the command line (main) and the HTTP handler (optimize)
\* ------------------------------------------------------------------------
\* _parse_stock_arg on the entries of --stock, already split into
\* (denomination, quantity) pairs: ok = FALSE is argparse.ArgumentTypeError.
_parse_stock_arg(entries, denoms) ==
    IF \E d \in DOMAIN entries : d \notin Range(denoms) \/ entries[d] < 0
    THEN [ok |-> FALSE, out |-> NoStock]
    ELSE [ok |-> TRUE, out |-> entries]

\* optimize, lines 41-50: only the positive quantities are kept
PositiveStock(stock_data) ==
    [d \in {x \in DOMAIN stock_data : stock_data[x] > 0} |-> stock_data[d]]

\* the fallback taken whenever fewer variants came back than were asked for
FallbackTaken_Fewer(variants) ==
    Len(variants.value) < max_variants

\* "if ideal_variants:" fails (lines 311 and 69): the fallback is taken
FallbackTaken(variants) ==
    Len(variants.value) = 0

IdealVariant(tpl, denoms) ==
    [type          |-> "ideal",
     blocks        |-> tpl[1],
     total_bundles |-> tpl[1] * BLOCK_SIZE,
     total_value   |-> ZipDot(denoms, tpl[2]) * BUNDLE_SIZE]

LooseVariant(bundle_counts, denoms) ==
    [type          |-> "loose",
     blocks        |-> 0,
     total_bundles |-> SumSeq(bundle_counts),
     total_value   |-> ZipDot(denoms, bundle_counts) * BUNDLE_SIZE]

FormatIdeal(variants, denoms) ==
    [k \in DOMAIN variants |-> IdealVariant(variants[k], denoms)]

FormatLoose(variants, denoms) ==
    [k \in DOMAIN variants |-> LooseVariant(variants[k], denoms)]

\* The --stock entries the command line is given: the valid mappings, one
\* with a denomination the currency lacks, one with a negative quantity.
StockArgs(code) ==
    StockMaps(code)
    \cup {[d \in {MinSeq(CURRENCIES[code]) + 1} |-> LowStock],
          [d \in {MinSeq(CURRENCIES[code])} |-> -LowStock]}

\* The stock object of the HTTP request: any denomination key is accepted
StockData(code) ==
    StockMaps(code)
    \cup {[d \in {MinSeq(CURRENCIES[code]) + 1} |-> LowStock]}

InitCallers ==
    /\ InitRequest
    /\ DfsIdle
    /\ \/ pc = "main" /\ bundles_stock \in StockArgs(currency_code)
       \/ pc = "optimize" /\ bundles_stock \in StockData(currency_code)

\* main, lines 305-309
MainTryIdeal ==
    /\ pc = "main"
    /\ LET denoms == SortedDesc(CURRENCIES[currency_code])
           parsed == _parse_stock_arg(bundles_stock, denoms)
       IN  IF ~parsed.ok
           THEN /\ pc' = "done"
                /\ response' = [kind |-> "usage_error", variants |-> << >>]
                /\ UNCHANGED <<ideal_variants, calls>>
           ELSE /\ ideal_variants' =
                       find_ideal_block_variants(amount, currency_code,
                                                 max_variants, parsed.out)
                /\ calls' = Append(calls, "ideal")
                /\ pc' = "main_ideal"
                /\ UNCHANGED response
    /\ UNCHANGED <<request, dfs, loose_variants>>

\* main, lines 311-314
MainPrintIdeal ==
    /\ pc = "main_ideal"
    /\ ~FallbackTaken(ideal_variants)
    /\ response' = [kind |-> "printed",
                    variants |-> FormatIdeal(ideal_variants.value,
                                     SortedDesc(CURRENCIES[currency_code]))]
    /\ pc' = "done"
    /\ UNCHANGED <<request, dfs, ideal_variants, loose_variants, calls>>

\* main, line 317
MainTryLoose ==
    /\ pc = "main_ideal"
    /\ FallbackTaken(ideal_variants)
    /\ loose_variants' =
           find_loose_bundle_variants(amount, currency_code, max_variants,
               _parse_stock_arg(bundles_stock,
                                SortedDesc(CURRENCIES[currency_code])).out)
    /\ calls' = Append(calls, "loose")
    /\ pc' = "main_loose"
    /\ UNCHANGED <<request, dfs, ideal_variants, response>>

\* main, lines 318-323; an exception of line 317 ends main with a traceback
MainPrintLoose ==
    /\ pc = "main_loose"
    /\ response' =
           IF loose_variants.state = "raised"
           THEN [kind |-> "traceback", variants |-> << >>]
           ELSE IF Len(loose_variants.value) > 0
           THEN [kind |-> "printed",
                 variants |-> FormatLoose(loose_variants.value,
                                  SortedDesc(CURRENCIES[currency_code]))]
           ELSE [kind |-> "system_exit", variants |-> << >>]
    /\ pc' = "done"
    /\ UNCHANGED <<request, dfs, ideal_variants, loose_variants, calls>>

\* optimize, lines 31-55
OptimizeTryIdeal ==
    /\ pc = "optimize"
    /\ IF \/ amount <= 0
          \/ currency_code \notin DOMAIN CURRENCIES
          \/ amount % BUNDLE_SIZE # 0
       THEN /\ pc' = "done"
            /\ response' = [kind |-> "400", variants |-> << >>]
            /\ UNCHANGED <<ideal_variants, calls>>
       ELSE /\ ideal_variants' =
                   find_ideal_block_variants(amount, currency_code,
                       max_variants, PositiveStock(bundles_stock))
            /\ calls' = Append(calls, "ideal")
            /\ pc' = "optimize_ideal"
            /\ UNCHANGED response
    /\ UNCHANGED <<request, dfs, loose_variants>>

\* optimize, lines 69-91 and 124
OptimizeSendIdeal ==
    /\ pc = "optimize_ideal"
    /\ ~FallbackTaken(ideal_variants)
    /\ response' = [kind |-> "200",
                    variants |-> FormatIdeal(ideal_variants.value,
                                     SortedDesc(CURRENCIES[currency_code]))]
    /\ pc' = "done"
    /\ UNCHANGED <<request, dfs, ideal_variants, loose_variants, calls>>

\* optimize, lines 92-96
OptimizeTryLoose ==
    /\ pc = "optimize_ideal"
    /\ FallbackTaken(ideal_variants)
    /\ loose_variants' =
           find_loose_bundle_variants(amount, currency_code, max_variants,
                                      PositiveStock(bundles_stock))
    /\ calls' = Append(calls, "loose")
    /\ pc' = "optimize_loose"
    /\ UNCHANGED <<request, dfs, ideal_variants, response>>

\* optimize, lines 98-127; an exception of line 94 is answered with a 500
OptimizeSendLoose ==
    /\ pc = "optimize_loose"
    /\ response' =
           IF loose_variants.state = "raised"
           THEN [kind |-> "500", variants |-> << >>]
           ELSE IF Len(loose_variants.value) > 0
           THEN [kind |-> "200",
                 variants |-> FormatLoose(loose_variants.value,
                                  SortedDesc(CURRENCIES[currency_code]))]
           ELSE [kind |-> "400", variants |-> << >>]
    /\ pc' = "done"
    /\ UNCHANGED <<request, dfs, ideal_variants, loose_variants, calls>>

NextCallers ==
    \/ MainTryIdeal
    \/ MainPrintIdeal
    \/ MainTryLoose
    \/ MainPrintLoose
    \/ OptimizeTryIdeal
    \/ OptimizeSendIdeal
    \/ OptimizeTryLoose
    \/ OptimizeSendLoose

SpecCallers ==
    InitCallers /\ [][NextCallers]_vars

\* ------------------------------------------------------------------------
\* The two enumerations one statement at a time, on the shared scratch list
\* ------------------------------------------------------------------------
\* out.append((blocks, cur)): the reference to cur itself, no new object
CurAlias(objects) ==
    [lists |-> objects, ref |-> 1]

\* A list object is an entry of lists; a reference to it is its index.
\* cur is lists[1].  cur.copy() (lines 86 and 152) makes a new object with
\* the contents cur has now and gives the reference to it.
CurCopy(objects) ==
    [lists |-> Append(objects, objects[1]), ref |-> Len(objects) + 1]

\* a call of _search_blocks / _search_bundles that has not run yet; b is
\* the loop variable of lines 91 and 157, -1 before the first iteration
Frame(i, bundles_left, value_left) ==
    [i |-> i, bundles_left |-> bundles_left, value_left |-> value_left,
     b |-> -1]

DfsStock ==
    _normalise_stock(CURRENCIES[currency_code], bundles_stock)

\* the stock mappings that limit at most MaxDfsStockKeys denominations
DfsStockMaps(code) ==
    {m \in StockMaps(code) : Cardinality(DOMAIN m) <= MaxDfsStockKeys}

InitDfs ==
    /\ currency_code \in CurrencyCodes
    /\ amount \in Amounts(currency_code)
    /\ max_variants = MaxVariants
    /\ bundles_stock \in DfsStockMaps(currency_code)
    /\ pc \in {"enumerate_ideal", "enumerate_loose"}
    /\ ideal_variants = NotCalled
    /\ loose_variants = NotCalled
    /\ calls = << >>
    /\ response = NoResponse
    /\ DfsIdle

\* the call returns to its caller: the frame below, or the enumeration
Return ==
    /\ stack' = SubSeq(stack, 1, Len(stack) - 1)
    /\ IF Len(stack) > 1 THEN UNCHANGED <<pc, blocks>>
       ELSE IF pc = "search_blocks"
            THEN pc' = "blocks_loop" /\ blocks' = blocks + 1
            ELSE pc' = "returned" /\ UNCHANGED blocks

\* _enumerate_ideal_configs, lines 106-119; _enumerate_loose_configs,
\* lines 171-179
DfsEnumerate ==
    /\ pc \in {"enumerate_ideal", "enumerate_loose"}
    /\ IF amount % BUNDLE_SIZE # 0
       THEN /\ pc' = "returned"
            /\ UNCHANGED dfs
       ELSE /\ lists' = <<Repeat(0, Len(SortedDesc(CURRENCIES[currency_code])))>>
            /\ out' = << >>
            /\ IF pc = "enumerate_ideal"
               THEN /\ blocks' = 1
                    /\ stack' = << >>
                    /\ pc' = "blocks_loop"
               ELSE /\ blocks' = 0
                    /\ stack' = <<Frame(1, 0, amount \div BUNDLE_SIZE)>>
                    /\ pc' = "search_bundles"
    /\ UNCHANGED <<request, ideal_variants, loose_variants, calls, response>>

\* _enumerate_ideal_configs, lines 121-133
DfsBlocksLoop ==
    /\ pc = "blocks_loop"
    /\ LET denoms == SortedDesc(CURRENCIES[currency_code])
           total_stock_bundles == SumStock(denoms, DfsStock)
           max_blocks == MaxBlocksFor(amount, denoms, DfsStock)
           bundles_total == blocks * BLOCK_SIZE
       IN  IF \/ blocks > max_blocks
              \/ BigExceeds(bundles_total, total_stock_bundles)
           THEN /\ pc' = "returned"
                /\ UNCHANGED stack
           ELSE /\ stack' = <<Frame(1, bundles_total, amount \div BUNDLE_SIZE)>>
                /\ pc' = "search_blocks"
    /\ UNCHANGED <<request, ideal_variants, loose_variants, calls, response,
                   blocks, lists, out>>

\* _search_blocks, lines 79-87; _search_bundles, lines 147-153
DfsLeaf ==
    /\ pc \in {"search_blocks", "search_bundles"}
    /\ LET denoms == SortedDesc(CURRENCIES[currency_code])
           top == stack[Len(stack)]
           d == denoms[top.i]
           needed == NeededBundles(top.value_left, d)
           ok == IF pc = "search_blocks"
                 THEN BlocksLeafOk(d, needed, top.bundles_left,
                                   top.value_left, DfsStock)
                 ELSE BundlesLeafOk(d, needed, top.value_left, DfsStock)
           made == CurCopy(SetItem(lists, 1, SetItem(lists[1], top.i, needed)))
       IN  /\ top.i = Len(denoms)
           /\ IF ok
              THEN /\ lists' = made.lists
                   /\ out' = Append(out, [blocks |-> blocks, ref |-> made.ref])
              ELSE UNCHANGED <<lists, out>>
    /\ Return
    /\ UNCHANGED <<request, ideal_variants, loose_variants, calls, response>>

\* _search_blocks, lines 89-100; _search_bundles, lines 155-165
DfsLoop ==
    /\ pc \in {"search_blocks", "search_bundles"}
    /\ LET denoms == SortedDesc(CURRENCIES[currency_code])
           top == stack[Len(stack)]
           d == denoms[top.i]
           max_for_d == IF pc = "search_blocks"
                        THEN BlocksMaxForD(d, top.bundles_left,
                                           top.value_left, DfsStock)
                        ELSE BundlesMaxForD(d, top.value_left, DfsStock)
           b == top.b + 1
       IN  /\ top.i < Len(denoms)
           /\ IF b <= max_for_d
              THEN /\ lists' = SetItem(lists, 1, SetItem(lists[1], top.i, b))
                   /\ stack' = SetItem(stack, Len(stack),
                                       [i |-> top.i,
                                        bundles_left |-> top.bundles_left,
                                        value_left |-> top.value_left,
                                        b |-> b])
                                \o <<Frame(top.i + 1, top.bundles_left - b,
                                           top.value_left - d * b)>>
                   /\ UNCHANGED <<pc, blocks>>
              ELSE /\ lists' = SetItem(lists, 1, SetItem(lists[1], top.i, 0))
                   /\ Return
    /\ UNCHANGED <<request, ideal_variants, loose_variants, calls, response,
                   out>>

NextDfs ==
    \/ DfsEnumerate
    \/ DfsBlocksLoop
    \/ DfsLeaf
    \/ DfsLoop

SpecDfs ==
    InitDfs /\ [][NextDfs]_vars

\* ------------------------------------------------------------------------
\* What the properties are stated over
\* ------------------------------------------------------------------------
\* the descending denomination list of the request's currency
Denom ==
    SortedDesc(CURRENCIES[currency_code])

\* the stock a denomination has: the caller's count when the mapping has
\* one (a count of 0 included), unlimited otherwise
StockFor(d) ==
    IF d \in DOMAIN bundles_stock THEN bundles_stock[d] ELSE _INFTY

\* the enumerations before sorting and truncation
IdealRaw ==
    _enumerate_ideal_configs(amount, CURRENCIES[currency_code],
        _normalise_stock(CURRENCIES[currency_code], bundles_stock))

LooseRaw ==
    _enumerate_loose_configs(amount, CURRENCIES[currency_code],
        _normalise_stock(CURRENCIES[currency_code], bundles_stock))

IdealConfigs ==
    {ideal_variants.value[k][2] : k \in DOMAIN ideal_variants.value}

LooseConfigs ==
    Range(loose_variants.value)

ExactFor(c, denom) ==
    /\ Len(c) = Len(denom)
    /\ SumSeq([i \in 1..Len(c) |-> c[i] * denom[i]]) * BUNDLE_SIZE = amount

Exact(c) ==
    ExactFor(c, Denom)

WithinStockFor(c, denom) ==
    \A i \in 1..Len(c) : 0 <= c[i] /\ c[i] <= StockFor(denom[i])

WithinStock(c) ==
    WithinStockFor(c, Denom)

\* Every count vector that is exact and within stock, found without the
\* searches: all choices for the denominations but the last, each within
\* its stock and within amount // (d * BUNDLE_SIZE), completed by the one
\* count of the last denomination that could make the total exact.
\* Prefixes gives the pairs (counts of the first i denominations, their
\* value in bundles of one note).
RECURSIVE Prefixes(_, _)
Prefixes(denom, i) ==
    IF i = 0 THEN {<< << >>, 0 >>}
    ELSE {<<Append(pv[1], b), pv[2] + b * denom[i]>> :
             pv \in Prefixes(denom, i - 1),
             b \in 0..Min2(StockFor(denom[i]),
                           amount \div (denom[i] * BUNDLE_SIZE))}

FeasibleLoose ==
    LET denom == Denom
        n == Len(denom)
        last(pv) ==
            (amount - pv[2] * BUNDLE_SIZE) \div (denom[n] * BUNDLE_SIZE)
        fits(pv) ==
            LET b == last(pv)
            IN  /\ 0 <= b /\ b <= StockFor(denom[n])
                /\ (pv[2] + b * denom[n]) * BUNDLE_SIZE = amount
    IN  {Append(pv[1], last(pv)) :
            pv \in {x \in Prefixes(denom, n - 1) : fits(x)}}

\* the pairs (blocks, c) of the configurations that fill whole blocks
WholeBlocks(configs) ==
    {<<SumSeq(c) \div BLOCK_SIZE, c>> :
        c \in {x \in configs :
                  SumSeq(x) >= BLOCK_SIZE /\ SumSeq(x) % BLOCK_SIZE = 0}}

\* ------------------------------------------------------------------------
\* C1  Exactness: every configuration either search returns has one entry
\* per denomination and sum(c[i] * denom[i]) * BUNDLE_SIZE = amount.
\* ------------------------------------------------------------------------
C1_Exactness ==
    \A c \in IdealConfigs \cup LooseConfigs : Exact(c)

C1_Witness ==
    /\ Len(ideal_variants.value) > 0
    /\ Len(loose_variants.value) > 0
    /\ \E c \in IdealConfigs : CountNonZero(c) >= 2
    /\ \E c \in LooseConfigs : CountNonZero(c) >= 2

\* ------------------------------------------------------------------------
\* C2  Stock respect: every count of a returned configuration is between 0
\* and the stock of its denomination (the caller's count, 0 included, or
\* the unlimited sentinel when the mapping has no entry for it).
\* ------------------------------------------------------------------------
C2_StockRespect ==
    \A c \in IdealConfigs \cup LooseConfigs : WithinStock(c)

C2_Witness ==
    /\ \E d \in DOMAIN bundles_stock : bundles_stock[d] = 0
    /\ \E d \in Range(Denom) : d \notin DOMAIN bundles_stock
    /\ \E c \in IdealConfigs : \E i \in DOMAIN c :
           c[i] > 0 /\ c[i] = StockFor(Denom[i])
    /\ \E c \in LooseConfigs : \E i \in DOMAIN c :
           c[i] > 0 /\ c[i] = StockFor(Denom[i])

\* ------------------------------------------------------------------------
\* C3  Grouping invariant: every pair (blocks, c) the ideal search returns
\* has blocks >= 1 and sum(c) = blocks * BLOCK_SIZE.
\* ------------------------------------------------------------------------
C3_Grouping ==
    \A k \in DOMAIN ideal_variants.value :
        LET tpl == ideal_variants.value[k]
        IN  tpl[1] >= 1 /\ SumSeq(tpl[2]) = tpl[1] * BLOCK_SIZE

C3_Witness ==
    /\ \E k \in DOMAIN ideal_variants.value : ideal_variants.value[k][1] >= 2
    /\ \E k \in DOMAIN ideal_variants.value :
           CountNonZero(ideal_variants.value[k][2]) >= 2

\* ------------------------------------------------------------------------
\* C4  Bounded and complete output: a search that returns a list returns
\* min(max_variants, N) items, N the number of feasible solutions; the
\* enumeration before truncation holds every feasible solution exactly
\* once.
\* ------------------------------------------------------------------------
CompleteOnce(raw, feasible) ==
    Range(raw) = feasible /\ Len(raw) = Cardinality(feasible)

C4_BoundedComplete ==
    LET loose == FeasibleLoose
        ideal == WholeBlocks(loose)
    IN  /\ ideal_variants.state # "none" =>
               /\ CompleteOnce(IdealRaw, ideal)
               /\ ideal_variants.state = "returned" =>
                      Len(ideal_variants.value)
                          = Min2(max_variants, Cardinality(ideal))
        /\ loose_variants.state # "none" =>
               /\ CompleteOnce(LooseRaw, loose)
               /\ loose_variants.state = "returned" =>
                      Len(loose_variants.value)
                          = Min2(max_variants, Cardinality(loose))

\* the list is cut short in one search and not in the other, and the total
\* stock, not the amount, caps the number of blocks
C4_Witness ==
    /\ ideal_variants.state = "returned"
    /\ loose_variants.state = "returned"
    /\ Len(ideal_variants.value) = 1
    /\ max_variants > 1
    /\ Len(loose_variants.value) = max_variants
    /\ Len(LooseRaw) > max_variants
    /\ Len(IdealRaw) = 1
    /\ DOMAIN bundles_stock = Range(Denom)
    /\ amount \div (MinSeq(Denom) * BUNDLE_SIZE * BLOCK_SIZE) > 1

\* ------------------------------------------------------------------------
\* C5  Ranking: the returned list is the first max_variants items of the
\* stable ascending sort of the enumeration by (block count or total bundle
\* count, denominations used, -average bundle value); items with equal keys
\* keep their enumeration order, which is ascending in (blocks, c[1], c[2],
\* ...).
\* ------------------------------------------------------------------------
\* the key of the pair x = (first, c) is strictly smaller than that of y
KeyBefore(x, y) ==
    LET used(c) == Cardinality({i \in 1..Len(c) : c[i] # 0})
        value(c) == SumSeq([i \in 1..Len(c) |-> Denom[i] * c[i]])
    IN  \/ x[1] < y[1]
        \/ x[1] = y[1] /\ used(x[2]) < used(y[2])
        \/ /\ x[1] = y[1]
           /\ used(x[2]) = used(y[2])
           /\ value(x[2]) * SumSeq(y[2]) > value(y[2]) * SumSeq(x[2])

\* a comes before b in lexicographic order (equal lengths)
LexBefore(a, b) ==
    \E i \in DOMAIN a :
        a[i] < b[i] /\ \A j \in 1..(i - 1) : a[j] = b[j]

\* ret is the first max_variants items of raw sorted stably by the key
\* where each item of ret is in raw (0 when it is not there)
RECURSIVE Positions(_, _, _)
Positions(raw, ret, n) ==
    IF n = 0 THEN << >>
    ELSE Append(Positions(raw, ret, n - 1),
                IF \E p \in 1..Len(raw) : raw[p] = ret[n]
                THEN CHOOSE p \in 1..Len(raw) : raw[p] = ret[n]
                ELSE 0)

RankedPrefix(raw, ret) ==
    LET pos == Positions(raw, ret, Len(ret))
        before(p, q) ==
            \/ KeyBefore(raw[p], raw[q])
            \/ ~KeyBefore(raw[q], raw[p]) /\ p < q
    IN  /\ Len(ret) = Min2(max_variants, Len(raw))
        /\ \A j \in 1..Len(ret) : pos[j] # 0
        /\ \A j \in 1..(Len(ret) - 1) : before(pos[j], pos[j + 1])
        /\ \A q \in 1..Len(raw) :
               q \notin Range(pos) =>
                   \A j \in 1..Len(ret) : before(pos[j], q)

\* the enumeration is in ascending order of its items
Ascending(raw) ==
    \A p \in 1..(Len(raw) - 1) : LexBefore(raw[p], raw[p + 1])

\* each configuration paired with its total bundle count
WithTotals(list) ==
    [p \in 1..Len(list) |-> <<SumSeq(list[p]), list[p]>>]

\* each pair (blocks, c) as the list (blocks, c[1], c[2], ...)
Flat(list) ==
    [p \in 1..Len(list) |-> <<list[p][1]>> \o list[p][2]]

C5_Ranking ==
    /\ ideal_variants.state = "returned" =>
           LET raw == IdealRaw
           IN  /\ RankedPrefix(raw, ideal_variants.value)
               /\ Ascending(Flat(raw))
    /\ loose_variants.state = "returned" =>
           LET raw == LooseRaw
           IN  /\ RankedPrefix(WithTotals(raw),
                               WithTotals(loose_variants.value))
               /\ Ascending(raw)

\* the ideal list holds two items with equal keys, the loose list does not
\* start with the first item enumerated
C5_Witness ==
    /\ ideal_variants.state = "returned"
    /\ loose_variants.state = "returned"
    /\ Len(ideal_variants.value) >= 2
    /\ ~KeyBefore(ideal_variants.value[1], ideal_variants.value[2])
    /\ Len(loose_variants.value) >= 2
    /\ loose_variants.value[1] # LooseRaw[1]
    /\ \E tpl \in Range(IdealRaw) : tpl[1] >= 2

\* ------------------------------------------------------------------------
\* C6  Invalid amount yields empty, not an error: for an amount that is
\* zero, negative or not divisible by BUNDLE_SIZE, each entry point returns
\* the empty list and raises nothing.
\* ------------------------------------------------------------------------
InvalidAmount ==
    amount <= 0 \/ amount % BUNDLE_SIZE # 0

C6_InvalidAmountEmpty ==
    InvalidAmount =>
        /\ ideal_variants.state # "none" => ideal_variants = Returned(<< >>)
        /\ loose_variants.state # "none" => loose_variants = Returned(<< >>)

\* ------------------------------------------------------------------------
\* C8  Loose is a superset of grouped: every configuration of the ideal
\* enumeration is in the loose enumeration of the same request, so a
\* non-empty ideal result comes with a non-empty loose result.
\* ------------------------------------------------------------------------
C8_LooseSuperset ==
    (ideal_variants.state # "none" /\ loose_variants.state # "none") =>
        /\ {tpl[2] : tpl \in Range(IdealRaw)} \subseteq Range(LooseRaw)
        /\ Len(ideal_variants.value) > 0 => Len(loose_variants.value) > 0

C8_Witness ==
    /\ ideal_variants.state = "returned"
    /\ loose_variants.state = "returned"
    /\ Len(IdealRaw) >= 2
    /\ Len(LooseRaw) > Len(IdealRaw)
    /\ DOMAIN bundles_stock # {}

\* ------------------------------------------------------------------------
\* C10  The third score component never decides an order: two enumerated
\* solutions of one request with equal first score component have equal
\* average bundle value.
\* ------------------------------------------------------------------------
SameAverage(keys) ==
    LET fa == {<<key.first, key.num, key.den>> : key \in Range(keys)}
    IN  \A x \in fa : \A y \in fa :
            x[1] = y[1] => x[2] * y[3] = y[2] * x[3]

IdealKeys ==
    LET raw == IdealRaw
    IN  [k \in 1..Len(raw) |->
            _score_ideal(raw[k][1], raw[k][2], CURRENCIES[currency_code])]

LooseKeys ==
    LET raw == LooseRaw
    IN  [k \in 1..Len(raw) |->
            _score_loose(raw[k], CURRENCIES[currency_code])]

C10_ThirdComponentIdle ==
    /\ ideal_variants.state # "none" => SameAverage(IdealKeys)
    /\ loose_variants.state # "none" => SameAverage(LooseKeys)

\* solutions that share the first component and differ in the rest
C10_Witness ==
    /\ ideal_variants.state # "none"
    /\ loose_variants.state # "none"
    /\ LET fk == {<<key.first, key.kinds>> : key \in Range(IdealKeys)}
       IN  \E x, y \in fk : x[1] = y[1] /\ x[2] # y[2]
    /\ LET fk == {<<key.first, key.kinds>> : key \in Range(LooseKeys)}
       IN  \E x, y \in fk : x[1] = y[1] /\ x[2] # y[2]

\* ------------------------------------------------------------------------
\* C7  Fallback ordering: a caller invokes the ideal search first and the
\* loose search after it, and only when the ideal search returned the empty
\* list; a caller that got the empty list does invoke the loose search; a
\* response holds variants of one kind only.
\* ------------------------------------------------------------------------
C7_FallbackOrdering ==
    /\ calls \in {<< >>, <<"ideal">>, <<"ideal", "loose">>}
    /\ Len(calls) = 2 => ideal_variants = Returned(<< >>)
    /\ (pc = "done" /\ ideal_variants = Returned(<< >>)) => Len(calls) = 2
    /\ Len(calls) < 2 => loose_variants = NotCalled
    /\ \A j, k \in DOMAIN response.variants :
           response.variants[j].type = response.variants[k].type
    /\ \A k \in DOMAIN response.variants :
           response.variants[k].type = "loose" <=> Len(calls) = 2

C7_Witness ==
    /\ pc = "done"
    /\ calls = <<"ideal", "loose">>
    /\ Len(response.variants) >= 2
    /\ response.variants[1].type = "loose"

\* ------------------------------------------------------------------------
\* C9  No emitted solution aliases the scratch list: an item of out and the
\* contents of the list it refers to never change once appended, and the
\* list appended holds, for every denomination, the count chosen on the
\* path of calls that led to the append.
\* ------------------------------------------------------------------------
\* the list out holds at index k
Emitted(k) ==
    lists[out[k].ref]

\* the counts chosen on the current path: the loop variable b of every
\* frame below the last, and needed_bundles of the last
PathCounts ==
    LET denoms == SortedDesc(CURRENCIES[currency_code])
        top == stack[Len(stack)]
    IN  [j \in 1..Len(stack) |->
            IF j < Len(stack) THEN stack[j].b
            ELSE NeededBundles(top.value_left, denoms[top.i])]

C9_NoAliasing ==
    [][/\ \A k \in 1..Len(out) :
              /\ out'[k] = out[k]
              /\ lists'[out[k].ref] = lists[out[k].ref]
       /\ Len(out') > Len(out) =>
              /\ Len(out') = Len(out) + 1
              /\ Len(stack) = Len(SortedDesc(CURRENCIES[currency_code]))
              /\ \A j \in 1..Len(stack) :
                     lists'[out'[Len(out')].ref][j] = PathCounts[j]]_vars

\* the enumeration agrees with the searches taken as functions
DfsAgrees ==
    pc = "returned" =>
        \/ /\ blocks > 0
           /\ [k \in 1..Len(out) |-> <<out[k].blocks, Emitted(k)>>] = IdealRaw
        \/ /\ blocks = 0 /\ lists # << >>
           /\ [k \in 1..Len(out) |-> Emitted(k)] = LooseRaw
        \/ /\ lists = << >>
           /\ amount % BUNDLE_SIZE # 0

\* two block counts have emitted, and the scratch list has moved on since
C9_Witness ==
    /\ pc = "returned"
    /\ Len(out) >= 3
    /\ out[1].blocks = 1
    /\ out[Len(out)].blocks = 2
    /\ Emitted(1) # lists[1]
    /\ Emitted(1) # Emitted(2)

====
